---- MODULE Spec2Model ----
(***************************************************************************)
(* Model of the relay control scripts of OpenBK7231N_controll:             *)
(*   ovladani_rele.py  - MqttRelaisController and main (MQTT, Adafruit IO) *)
(*   tuya_control.py   - ovladej_rele (Tuya cloud API)                     *)
(* The foreground thread of a script is followed by pc; the paho network   *)
(* thread (loop_start) runs the callbacks on_connect, on_disconnect and    *)
(* on_message between any two foreground steps.                            *)
(***************************************************************************)
EXTENDS Integers, Sequences, FiniteSets, TLC

\* ---------------------------------------------------------------- bounds
MaxInvocations == 2    \* consecutive runs of the script (cron)
MaxPokusy == 3         \* largest value of ovladej_rele's pokusy parameter
MaxRows == 3           \* rows of the table zjisti_intervaly_pod_limitem is given

\* ------------------------------------------------------------- constants
POKUSY == 3

Max(a, b) == IF a >= b THEN a ELSE b

\* attempt numbers that can ever be recorded (one spare for the loop bound)
AttemptIds == 1 .. (Max(POKUSY, MaxPokusy) + 1)

\* range(1, n + 1) of the for loops
Range_offbyone(n) == 1 .. (n + 1)

Range(n) == 1 .. n

\* ------------------------------------------------------ payload handling
\* A payload is a sequence of one-character strings (bytes of the message).
UpperCase == <<"A","B","C","D","E","F","G","H","I","J","K","L","M",
               "N","O","P","Q","R","S","T","U","V","W","X","Y","Z">>

LowerCase == <<"a","b","c","d","e","f","g","h","i","j","k","l","m",
               "n","o","p","q","r","s","t","u","v","w","x","y","z">>

\* a byte that is not valid UTF-8
BadByte == "0xFF"

\* self._last_payload = None
None == <<"None">>

\* bytes.decode(errors="ignore"): undecodable bytes are dropped
Decode(b) == SelectSeq(b, LAMBDA c : c # BadByte)

IsSpace(c) == c \in {" ", "\t", "\n", "\r"}

RECURSIVE LStrip(_)
LStrip(s) == IF s # <<>> /\ IsSpace(Head(s)) THEN LStrip(Tail(s)) ELSE s

RECURSIVE RStrip(_)
RStrip(s) == IF s # <<>> /\ IsSpace(s[Len(s)])
             THEN RStrip(SubSeq(s, 1, Len(s) - 1)) ELSE s

\* str.strip()
Strip(s) == RStrip(LStrip(s))

LowerChar(c) == IF \E i \in 1..26 : UpperCase[i] = c
                THEN LowerCase[CHOOSE i \in 1..26 : UpperCase[i] = c] ELSE c

UpperChar(c) == IF \E i \in 1..26 : LowerCase[i] = c
                THEN UpperCase[CHOOSE i \in 1..26 : LowerCase[i] = c] ELSE c

\* str.lower(), str.upper()
Lower(s) == [i \in 1..Len(s) |-> LowerChar(s[i])]

Upper(s) == [i \in 1..Len(s) |-> UpperChar(s[i])]

ON == <<"O","N">>

OFF == <<"O","F","F">>

OnWords == { <<"o","n">>, <<"1">>, <<"t","r","u","e">> }

OffWords == { <<"o","f","f">>, <<"0">>, <<"f","a","l","s","e">> }

\* val in ("on", "off", "1", "0", "true", "false")
KnownWords == OnWords \cup OffWords

\* norm = "ON" if val in ("on", "1", "true") else "OFF"
Norm(val) == IF val \in OnWords THEN ON ELSE OFF

\* the value _on_message leaves in _last_payload for raw message bytes b
StoredPayload(b) ==
    LET payload == Strip(Decode(b))
        val == Lower(payload)
    IN IF val \in KnownWords THEN Norm(val) ELSE payload

Signals_any(b) == TRUE

\* whether _on_message sets _confirm_event for raw message bytes b
Signals(b) == Lower(Strip(Decode(b))) \in KnownWords

\* message bodies the broker may deliver on the feed
Payloads == { <<"O","N">>, <<"o","f","f">>, <<"1">>, <<"0">>,
              <<" ","T","r","u","e","\n">>, <<"F","A","L","S","E">>,
              <<"O",BadByte,"N">>, <<"2"," ">> }

Hours == 0 .. 23


\* ------------------------------------------------------------------ state
VARIABLES
    script,           \* which script the process runs
    inv,              \* number of the current run of the script
    pc,               \* position of the foreground thread
    pod_limitem,      \* the decision: TRUE = switch ON, FALSE = switch OFF
    controller,       \* main's local variable controller is bound
    pokus,            \* loop variable of the retry loop (0 before the loop)
    ok,               \* return value of publish_and_wait_confirmation
    success,          \* main's local variable success
    last_payload,     \* MqttRelaisController._last_payload
    confirm_event,    \* MqttRelaisController._confirm_event is set
    connected_event,  \* MqttRelaisController._connected_event is set
    net,              \* state of the paho client's session
    retainedPending,  \* the broker still owes the retained value of the feed
    pokusy,           \* ovladej_rele's parameter pokusy
    is_on,            \* the Tuya device's actual state
    cmds,             \* commands published in this run
    outcome,          \* per attempt: how it ended
    result,           \* how the run ended
    notifs,           \* the Telegram messages handed to the notifier, in order
    att,              \* what was delivered during the attempt in progress or just returned
    connectFailed,    \* connect() raised in this run
    disconnects,      \* calls of controller.disconnect() in this run
    run,              \* the current streak of confirmed runs of one state
    persisted,        \* content of a durable last-confirmed-state record
    state,            \* night_guard.py: global state
    waited,           \* night_guard.py: waited, counted in polling intervals
    ng_net,           \* night_guard.py: state of the client's session
    ng_retained,      \* night_guard.py: the broker owes the retained value
    off_cmds,         \* night_guard.py: "0" published on the set topic
    delivered,        \* night_guard.py: the message on_message was called with last
    wait_end,         \* night_guard.py: state when the polling loop ended
    stop_state,       \* night_guard.py: state when loop_stop was called
    df,               \* stahni_data.py: rows (Ctvrthodina, price) of the table
    pod_list,         \* zjisti_intervaly_pod_limitem: pod
    pod_i,            \* zjisti_intervaly_pod_limitem: position of the loop in pod[1:]
    start,            \* zjisti_intervaly_pod_limitem: start
    prev,             \* zjisti_intervaly_pod_limitem: prev
    intervaly         \* zjisti_intervaly_pod_limitem: intervaly

vars == << script, inv, pc, pod_limitem, controller, pokus, ok, success,
           last_payload, confirm_event, connected_event, net, retainedPending,
           pokusy, is_on, cmds, outcome, result, notifs, att,
           connectFailed, disconnects, run, persisted,
           state, waited, ng_net, ng_retained, off_cmds, delivered, wait_end,
           stop_state, df, pod_list, pod_i, start, prev, intervaly >>

\* variables of night_guard.py
ngVars == << state, waited, ng_net, ng_retained, off_cmds, delivered,
             wait_end, stop_state >>

\* variables of stahni_data.py
sdVars == << df, pod_list, pod_i, start, prev, intervaly >>

\* variables the relay control scripts do not have
extVars == << ngVars, sdVars >>

\* variables of the controller object and of the broker session
ctlVars == << last_payload, confirm_event, connected_event, net, retainedPending >>

\* variables only tuya_control.py uses
tuyaVars == << pokusy, is_on >>

\* desired_payload = "ON" if pod_limitem else "OFF"
DesiredPayload == IF pod_limitem THEN ON ELSE OFF

\* akce_text of the notification: ZAPNUTO / VYPNUTO
AkceText == IF pod_limitem THEN "ZAPNUTO" ELSE "VYPNUTO"

\* the attempt budget of the running script
MaxAttempts == IF script = "ovladani_rele" THEN POKUSY ELSE pokusy

\* att: written  - a message wrote _last_payload after it was reset
\*      retain   - the message that wrote it last carried the retained flag
\*      post     - ... and was delivered after the command was published
\*      liveSeen - a message without the retained flag was delivered
\*      liveMatch, liveOther - a message without the retained flag that
\*                 carried the desired / the opposite state was delivered
\*                 after the command was published
\*      lost     - the session was lost after the command was published,
\*                 while the stored payload was not the desired state
NoAttempt == [written |-> FALSE, retain |-> FALSE, post |-> FALSE,
              liveSeen |-> FALSE, liveMatch |-> FALSE, liveOther |-> FALSE,
              lost |-> FALSE]

NoRun == [stav |-> "none", n |-> 0, notifs |-> 0]

\* state of a freshly started process (module level and __init__)
Fresh ==
    /\ pc = "start"
    /\ pod_limitem = FALSE
    /\ controller = FALSE
    /\ pokus = 0
    /\ ok = FALSE
    /\ success = FALSE
    /\ last_payload = None
    /\ confirm_event = FALSE
    /\ connected_event = FALSE
    /\ net = "idle"
    /\ retainedPending = FALSE
    /\ pokusy = 0
    /\ cmds = 0
    /\ outcome = [k \in AttemptIds |-> "none"]
    /\ result = "none"
    /\ notifs = <<>>
    /\ att = NoAttempt
    /\ connectFailed = FALSE
    /\ disconnects = 0

\* no message delivered yet
NoMessage == [b |-> None, retain |-> FALSE]

\* night_guard.py at module level, before client.connect
NgFresh ==
    /\ state = None
    /\ waited = 0
    /\ ng_net = "idle"
    /\ ng_retained = FALSE
    /\ off_cmds = 0
    /\ delivered = NoMessage
    /\ wait_end = None
    /\ stop_state = None

\* zjisti_intervaly_pod_limitem not called
SdFresh ==
    /\ df = <<>>
    /\ pod_list = <<>>
    /\ pod_i = 0
    /\ start = 0
    /\ prev = 0
    /\ intervaly = <<>>

Init ==
    /\ script \in {"ovladani_rele", "tuya_control"}
    /\ inv = 1
    /\ is_on \in BOOLEAN
    /\ run = NoRun
    /\ persisted = "Unknown"
    /\ Fresh
    /\ NgFresh
    /\ SdFresh


\* --------------------------------------- ovladani_rele.py: network thread
\* what the callbacks leave alone
fgVars == << script, inv, pc, pod_limitem, controller, pokus, ok, success,
             pokusy, is_on, cmds, outcome, result, notifs,
             connectFailed, disconnects, run, persisted >>

\* publish_and_wait_confirmation is past the clearing of the event and has
\* not returned
InAttempt == pc \in {"pwc_reset", "pwc_publish", "pwc_wait", "pwc_check"}

\* ... and its command is published
AfterPublish == pc \in {"pwc_wait", "pwc_check"}

\* _on_connect: the broker answered the CONNECT packet with return code rc
OnConnect(rc) ==
    /\ net = "connecting"
    /\ IF rc = 0
       THEN /\ net' = "up"
            /\ retainedPending' = TRUE      \* client.subscribe(topic_feed)
            /\ connected_event' = TRUE
       ELSE /\ net' = "down"
            /\ UNCHANGED << retainedPending, connected_event >>
    /\ UNCHANGED << last_payload, confirm_event, att >>
    /\ UNCHANGED fgVars
    /\ UNCHANGED extVars

\* _on_disconnect: the session was lost
OnDisconnect ==
    /\ net = "up"
    /\ net' = "down"
    /\ connected_event' = FALSE
    /\ retainedPending' = FALSE
    /\ att' = IF AfterPublish /\ last_payload # Upper(DesiredPayload)
              THEN [att EXCEPT !.lost = TRUE] ELSE att
    /\ UNCHANGED << last_payload, confirm_event >>
    /\ UNCHANGED fgVars
    /\ UNCHANGED extVars

\* the loop thread of loop_start() reconnects a lost session
Reconnect ==
    /\ net = "down"
    /\ net' = "connecting"
    /\ UNCHANGED << last_payload, confirm_event, connected_event,
                    retainedPending, att >>
    /\ UNCHANGED fgVars
    /\ UNCHANGED extVars

\* _on_message: a message with body b arrives on the feed; retain is the
\* broker's retained flag (the replay of the last value after subscribing)
OnMessage(b, retain) ==
    /\ net = "up"
    /\ retain => retainedPending
    /\ retainedPending' = IF retain THEN FALSE ELSE retainedPending
    /\ last_payload' = StoredPayload(b)
    /\ confirm_event' = (confirm_event \/ Signals(b))
    /\ att' = IF ~InAttempt THEN att ELSE
              [written |-> TRUE,
               retain |-> retain,
               post |-> AfterPublish,
               liveSeen |-> (att.liveSeen \/ ~retain),
               liveMatch |-> (att.liveMatch \/
                               (~retain /\ AfterPublish /\
                                StoredPayload(b) = Upper(DesiredPayload))),
               liveOther |-> (att.liveOther \/
                               (~retain /\ AfterPublish /\ Signals(b) /\
                                StoredPayload(b) # Upper(DesiredPayload))),
               lost |-> att.lost]
    /\ UNCHANGED << net, connected_event >>
    /\ UNCHANGED fgVars
    /\ UNCHANGED extVars

\* ----------------------------------- ovladani_rele.py: foreground thread
\* main up to the construction of the controller
MainStart(hod, pricesOk, pod, aioOk) ==
    /\ script = "ovladani_rele"
    /\ pc = "start"
    /\ IF hod < 9 \/ hod > 19
       THEN /\ pc' = "finally"                    \* return
            /\ result' = "skipped"
            /\ UNCHANGED << pod_limitem, controller >>
       ELSE IF ~pricesOk
       THEN /\ pc' = "except"                     \* nacti_ceny, je_cena_pod_limitem
            /\ UNCHANGED << pod_limitem, controller, result >>
       ELSE IF ~aioOk
       THEN /\ pc' = "except"
            /\ pod_limitem' = pod
            /\ UNCHANGED << controller, result >>
       ELSE /\ pc' = "connect"
            /\ pod_limitem' = pod
            /\ controller' = TRUE
            /\ UNCHANGED result
    /\ UNCHANGED << script, inv, pokus, ok, success, cmds, outcome, notifs,
                    att, connectFailed, disconnects, run, persisted >>
    /\ UNCHANGED ctlVars
    /\ UNCHANGED tuyaVars
    /\ UNCHANGED extVars

\* connect(): client.connect and loop_start
Connect(reachable) ==
    /\ pc = "connect"
    /\ IF reachable
       THEN /\ net' = "connecting"
            /\ pc' = "connect_wait"
            /\ UNCHANGED connectFailed
       ELSE /\ pc' = "except"                     \* client.connect raised
            /\ connectFailed' = TRUE
            /\ UNCHANGED net
    /\ UNCHANGED << script, inv, pod_limitem, controller, pokus, ok, success,
                    cmds, outcome, result, notifs, att, disconnects,
                    run, persisted >>
    /\ UNCHANGED << last_payload, confirm_event, connected_event, retainedPending >>
    /\ UNCHANGED tuyaVars
    /\ UNCHANGED extVars

\* connect(): the wait on _connected_event timed out
ConnectTimeout_ignored ==
    /\ pc = "connect_wait"
    /\ ~connected_event
    /\ pc' = "for"
    /\ connectFailed' = TRUE
    /\ UNCHANGED << script, inv, pod_limitem, controller, pokus, ok, success,
                    cmds, outcome, result, notifs, att, disconnects,
                    run, persisted >>
    /\ UNCHANGED ctlVars
    /\ UNCHANGED tuyaVars
    /\ UNCHANGED extVars

ConnectTimeout ==
    /\ pc = "connect_wait"
    /\ ~connected_event
    /\ pc' = "except"                             \* raise Exception
    /\ connectFailed' = TRUE
    /\ UNCHANGED << script, inv, pod_limitem, controller, pokus, ok, success,
                    cmds, outcome, result, notifs, att, disconnects,
                    run, persisted >>
    /\ UNCHANGED ctlVars
    /\ UNCHANGED tuyaVars
    /\ UNCHANGED extVars

\* connect(): _connected_event was set within the timeout
ConnectAcked ==
    /\ pc = "connect_wait"
    /\ connected_event
    /\ pc' = "for"
    /\ UNCHANGED << script, inv, pod_limitem, controller, pokus, ok, success,
                    cmds, outcome, result, notifs, att, connectFailed,
                    disconnects, run, persisted >>
    /\ UNCHANGED ctlVars
    /\ UNCHANGED tuyaVars
    /\ UNCHANGED extVars

\* for pokus in range(1, POKUSY + 1)
ForNext_nowait ==
    /\ pc \in {"for", "pwc_wait"}
    /\ IF pokus + 1 \in Range(POKUSY)
       THEN /\ pokus' = pokus + 1
            /\ pc' = "pwc_clear"
       ELSE /\ pc' = "after_loop"
            /\ UNCHANGED pokus
    /\ UNCHANGED << script, inv, pod_limitem, controller, ok, success, cmds,
                    outcome, result, notifs, att, connectFailed,
                    disconnects, run, persisted >>
    /\ UNCHANGED ctlVars
    /\ UNCHANGED tuyaVars
    /\ UNCHANGED extVars

ForNext ==
    /\ pc = "for"
    /\ IF pokus + 1 \in Range(POKUSY)
       THEN /\ pokus' = pokus + 1
            /\ pc' = "pwc_clear"
       ELSE /\ pc' = "after_loop"
            /\ UNCHANGED pokus
    /\ UNCHANGED << script, inv, pod_limitem, controller, ok, success, cmds,
                    outcome, result, notifs, att, connectFailed,
                    disconnects, run, persisted >>
    /\ UNCHANGED ctlVars
    /\ UNCHANGED tuyaVars
    /\ UNCHANGED extVars

\* publish_and_wait_confirmation: validation and _confirm_event.clear()
PwcClear ==
    /\ pc = "pwc_clear"
    /\ IF Upper(DesiredPayload) \notin {ON, OFF}
       THEN /\ pc' = "except"                     \* raise ValueError
            /\ UNCHANGED << confirm_event, att >>
       ELSE /\ pc' = "pwc_reset"
            /\ confirm_event' = FALSE
            /\ att' = NoAttempt
            /\ UNCHANGED << script, inv, pod_limitem, controller, pokus, ok, success,
                    cmds, outcome, result, notifs, connectFailed,
                    disconnects, run, persisted >>
    /\ UNCHANGED << last_payload, connected_event, net, retainedPending >>
    /\ UNCHANGED tuyaVars
    /\ UNCHANGED extVars

\* publish_and_wait_confirmation: with self._lock: self._last_payload = None
PwcReset ==
    /\ pc = "pwc_reset"
    /\ pc' = "pwc_publish"
    /\ last_payload' = None
    /\ att' = [att EXCEPT !.written = FALSE, !.retain = FALSE, !.post = FALSE]
    /\ UNCHANGED << script, inv, pod_limitem, controller, pokus, ok, success,
                    cmds, outcome, result, notifs, connectFailed,
                    disconnects, run, persisted >>
    /\ UNCHANGED << confirm_event, connected_event, net, retainedPending >>
    /\ UNCHANGED tuyaVars
    /\ UNCHANGED extVars

\* publish_and_wait_confirmation: self.client.publish(topic_feed, desired_state)
PwcPublish ==
    /\ pc = "pwc_publish"
    /\ pc' = "pwc_wait"
    /\ cmds' = cmds + 1
    /\ outcome' = [outcome EXCEPT ![pokus] = "pending"]
    /\ UNCHANGED << script, inv, pod_limitem, controller, pokus, ok, success,
                    result, notifs, att, connectFailed, disconnects,
                    run, persisted >>
    /\ UNCHANGED ctlVars
    /\ UNCHANGED tuyaVars
    /\ UNCHANGED extVars

WaitTimeout_never ==
    /\ pc = "pwc_wait"
    /\ ~confirm_event
    /\ FALSE
    /\ UNCHANGED vars

\* publish_and_wait_confirmation: _confirm_event.wait returned False
WaitTimeout ==
    /\ pc = "pwc_wait"
    /\ ~confirm_event
    /\ pc' = "got_ok"
    /\ ok' = FALSE                                \* return False
    /\ outcome' = [outcome EXCEPT ![pokus] = "timedout"]
    /\ UNCHANGED << script, inv, pod_limitem, controller, pokus, success,
                    cmds, result, notifs, att, connectFailed, disconnects,
                    run, persisted >>
    /\ UNCHANGED ctlVars
    /\ UNCHANGED tuyaVars
    /\ UNCHANGED extVars

\* publish_and_wait_confirmation: _confirm_event.wait returned True
WaitSignalled ==
    /\ pc = "pwc_wait"
    /\ confirm_event
    /\ pc' = "pwc_check"
    /\ UNCHANGED << script, inv, pod_limitem, controller, pokus, ok, success,
                    cmds, outcome, result, notifs, att, connectFailed,
                    disconnects, run, persisted >>
    /\ UNCHANGED ctlVars
    /\ UNCHANGED tuyaVars
    /\ UNCHANGED extVars

\* publish_and_wait_confirmation: confirmed = (_last_payload == desired_state)
PwcCheck ==
    /\ pc = "pwc_check"
    /\ pc' = "got_ok"
    /\ LET confirmed == (last_payload = Upper(DesiredPayload))
       IN /\ ok' = confirmed                      \* return confirmed
          /\ outcome' = [outcome EXCEPT
                           ![pokus] = IF confirmed THEN "confirmed" ELSE "unconfirmed"]
    /\ UNCHANGED << script, inv, pod_limitem, controller, pokus, success,
                    cmds, result, notifs, att, connectFailed, disconnects,
                    run, persisted >>
    /\ UNCHANGED ctlVars
    /\ UNCHANGED tuyaVars
    /\ UNCHANGED extVars

\* the streak of confirmed runs after one more confirmation of state stav
Confirmed(stav) ==
    IF run.stav = stav
    THEN [stav |-> stav, n |-> run.n + 1, notifs |-> run.notifs + 1]
    ELSE [stav |-> stav, n |-> 1, notifs |-> 1]

MainGotOk_nobreak ==
    /\ pc = "got_ok"
    /\ IF ok
       THEN /\ notifs' = Append(notifs, [kind |-> "ok", stav |-> AkceText,
                                         pokus |-> pokus])
            /\ success' = TRUE
            /\ result' = "success"
            /\ run' = Confirmed(AkceText)
            /\ pc' = "for"
       ELSE /\ pc' = "for"
            /\ UNCHANGED << notifs, success, result, run >>
    /\ att' = NoAttempt
    /\ UNCHANGED << script, inv, pod_limitem, controller, pokus, ok, cmds,
                    outcome, connectFailed, disconnects, persisted >>
    /\ UNCHANGED ctlVars
    /\ UNCHANGED tuyaVars
    /\ UNCHANGED extVars

\* main: if ok: send_telegram, success = True, break; else next iteration
MainGotOk ==
    /\ pc = "got_ok"
    /\ IF ok
       THEN /\ notifs' = Append(notifs, [kind |-> "ok", stav |-> AkceText,
                                         pokus |-> pokus])
            /\ success' = TRUE
            /\ result' = "success"
            /\ run' = Confirmed(AkceText)
            /\ pc' = "after_loop"
       ELSE /\ pc' = "for"
            /\ UNCHANGED << notifs, success, result, run >>
    /\ att' = NoAttempt
    /\ UNCHANGED << script, inv, pod_limitem, controller, pokus, ok, cmds,
                    outcome, connectFailed, disconnects, persisted >>
    /\ UNCHANGED ctlVars
    /\ UNCHANGED tuyaVars
    /\ UNCHANGED extVars

\* main: if not success: send_telegram("Rele NEREAGUJE ...")
AfterLoop_silent ==
    /\ pc = "after_loop"
    /\ pc' = "finally"
    /\ IF ~success
       THEN /\ result' = "failure"
            /\ run' = NoRun
            /\ UNCHANGED notifs
       ELSE UNCHANGED << notifs, result, run >>
    /\ UNCHANGED << script, inv, pod_limitem, controller, pokus, ok, success,
                    cmds, outcome, att, connectFailed, disconnects,
                    persisted >>
    /\ UNCHANGED ctlVars
    /\ UNCHANGED tuyaVars
    /\ UNCHANGED extVars

AfterLoop ==
    /\ pc = "after_loop"
    /\ pc' = "finally"
    /\ IF ~success
       THEN /\ notifs' = Append(notifs, [kind |-> "nereaguje", stav |-> "-",
                                         pokus |-> POKUSY])
            /\ result' = "failure"
            /\ run' = NoRun
       ELSE UNCHANGED << notifs, result, run >>
    /\ UNCHANGED << script, inv, pod_limitem, controller, pokus, ok, success,
                    cmds, outcome, att, connectFailed, disconnects,
                    persisted >>
    /\ UNCHANGED ctlVars
    /\ UNCHANGED tuyaVars
    /\ UNCHANGED extVars

\* main: except Exception as e: send_telegram("Chyba v ovladani_rele.py ...")
Except ==
    /\ pc = "except"
    /\ pc' = "finally"
    /\ notifs' = Append(notifs, [kind |-> "chyba", stav |-> "-", pokus |-> 0])
    /\ result' = "error"
    /\ run' = NoRun
    /\ UNCHANGED << script, inv, pod_limitem, controller, pokus, ok, success,
                    cmds, outcome, att, connectFailed, disconnects,
                    persisted >>
    /\ UNCHANGED ctlVars
    /\ UNCHANGED tuyaVars
    /\ UNCHANGED extVars

\* disconnect(): loop_stop and client.disconnect leave no loop thread and no
\* session, whatever the state n of the client was; exceptions are swallowed
DisconnectEffect(n) == "stopped"

Finally_not_on_error ==
    /\ pc = "finally"
    /\ pc' = "done"
    /\ IF controller /\ result # "error"
       THEN /\ net' = DisconnectEffect(net)
            /\ retainedPending' = FALSE
            /\ disconnects' = disconnects + 1
       ELSE UNCHANGED << net, retainedPending, disconnects >>
    /\ UNCHANGED << script, inv, pod_limitem, controller, pokus, ok, success,
                    cmds, outcome, result, notifs, att, connectFailed,
                    run, persisted >>
    /\ UNCHANGED << last_payload, confirm_event, connected_event >>
    /\ UNCHANGED tuyaVars
    /\ UNCHANGED extVars

\* main: finally: controller.disconnect(), any exception swallowed
Finally ==
    /\ pc = "finally"
    /\ pc' = "done"
    /\ IF controller
       THEN /\ net' = DisconnectEffect(net)       \* loop_stop, client.disconnect
            /\ retainedPending' = FALSE
            /\ disconnects' = disconnects + 1
       ELSE UNCHANGED << net, retainedPending, disconnects >>   \* NameError
    /\ UNCHANGED << script, inv, pod_limitem, controller, pokus, ok, success,
                    cmds, outcome, result, notifs, att, connectFailed,
                    run, persisted >>
    /\ UNCHANGED << last_payload, confirm_event, connected_event >>
    /\ UNCHANGED tuyaVars
    /\ UNCHANGED extVars


\* ------------------------------------------------------- tuya_control.py
\* __main__ up to the loop of ovladej_rele(pod_limitem, pokusy)
TStart(dataOk, pod, n, deviceFound) ==
    /\ script = "tuya_control"
    /\ pc = "start"
    /\ IF dataOk /\ deviceFound
       THEN /\ pc' = "t_for"
            /\ pod_limitem' = pod
            /\ pokusy' = n
            /\ UNCHANGED << result, run >>
       ELSE /\ pc' = "done"                       \* except Exception: print
            /\ result' = "error"
            /\ run' = NoRun
            /\ UNCHANGED << pod_limitem, pokusy >>
    /\ UNCHANGED << script, inv, controller, pokus, ok, success, is_on, cmds,
                    outcome, notifs, att, connectFailed, disconnects,
                    persisted >>
    /\ UNCHANGED ctlVars
    /\ UNCHANGED extVars

\* for pokus in range(1, pokusy + 1)
TFor ==
    /\ pc = "t_for"
    /\ IF pokus + 1 \in Range(pokusy)
       THEN /\ pokus' = pokus + 1
            /\ pc' = "t_cmd"
       ELSE /\ pc' = "t_fail"
            /\ UNCHANGED pokus
    /\ UNCHANGED << script, inv, pod_limitem, controller, ok, success, cmds,
                    outcome, result, notifs, att, connectFailed,
                    disconnects, run, persisted >>
    /\ UNCHANGED ctlVars
    /\ UNCHANGED tuyaVars
    /\ UNCHANGED extVars

\* device.turn_on() / device.turn_off(), then time.sleep(cekani);
\* the device may or may not follow the command
TCmd(obeyed) ==
    /\ pc = "t_cmd"
    /\ pc' = "t_status"
    /\ cmds' = cmds + 1
    /\ outcome' = [outcome EXCEPT ![pokus] = "pending"]
    /\ is_on' = IF obeyed THEN pod_limitem ELSE is_on
    /\ UNCHANGED << script, inv, pod_limitem, controller, pokus, ok, success,
                    pokusy, result, notifs, att, connectFailed,
                    disconnects, run, persisted >>
    /\ UNCHANGED ctlVars
    /\ UNCHANGED extVars

\* aktualni_stav = device.status()["is_on"] and the comparison
TStatus(answered) ==
    /\ pc = "t_status"
    /\ IF ~answered
       THEN /\ pc' = "done"                       \* exception reaches __main__
            /\ result' = "error"
            /\ run' = NoRun
            /\ UNCHANGED << outcome, notifs >>
       ELSE IF is_on = pod_limitem
       THEN /\ pc' = "done"                       \* return
            /\ outcome' = [outcome EXCEPT ![pokus] = "confirmed"]
            /\ notifs' = Append(notifs, [kind |-> "ok", stav |-> AkceText,
                                         pokus |-> pokus])
            /\ result' = "success"
            /\ run' = Confirmed(AkceText)
       ELSE /\ pc' = "t_for"
            /\ outcome' = [outcome EXCEPT ![pokus] = "timedout"]
            /\ UNCHANGED << notifs, result, run >>
    /\ UNCHANGED << script, inv, pod_limitem, controller, pokus, ok, success,
                    cmds, att, connectFailed, disconnects, persisted >>
    /\ UNCHANGED ctlVars
    /\ UNCHANGED tuyaVars
    /\ UNCHANGED extVars

\* after the loop: odesli_telegram_zpravu("Rele NEREAGUJE ...")
TFail ==
    /\ pc = "t_fail"
    /\ pc' = "done"
    /\ notifs' = Append(notifs, [kind |-> "nereaguje", stav |-> AkceText,
                                 pokus |-> pokusy])
    /\ result' = "failure"
    /\ run' = NoRun
    /\ UNCHANGED << script, inv, pod_limitem, controller, pokus, ok, success,
                    cmds, outcome, att, connectFailed, disconnects,
                    persisted >>
    /\ UNCHANGED ctlVars
    /\ UNCHANGED tuyaVars
    /\ UNCHANGED extVars

\* ------------------------------------------------------------- scheduling
\* the scheduler starts the script again: a new process, nothing carried over
Restart ==
    /\ pc = "done"
    /\ inv < MaxInvocations
    /\ inv' = inv + 1
    /\ pc' = "start"
    /\ pod_limitem' = FALSE
    /\ controller' = FALSE
    /\ pokus' = 0
    /\ ok' = FALSE
    /\ success' = FALSE
    /\ last_payload' = None
    /\ confirm_event' = FALSE
    /\ connected_event' = FALSE
    /\ net' = "idle"
    /\ retainedPending' = FALSE
    /\ pokusy' = 0
    /\ cmds' = 0
    /\ outcome' = [k \in AttemptIds |-> "none"]
    /\ result' = "none"
    /\ notifs' = <<>>
    /\ att' = NoAttempt
    /\ connectFailed' = FALSE
    /\ disconnects' = 0
    /\ UNCHANGED << script, is_on, run, persisted >>
    /\ UNCHANGED extVars

Next ==
    \/ \E rc \in {0, 5} : OnConnect(rc)
    \/ OnDisconnect
    \/ Reconnect
    \/ \E b \in Payloads, retain \in BOOLEAN : OnMessage(b, retain)
    \/ \E hod \in Hours, pricesOk \in BOOLEAN, pod \in BOOLEAN, aioOk \in BOOLEAN :
          MainStart(hod, pricesOk, pod, aioOk)
    \/ \E reachable \in BOOLEAN : Connect(reachable)
    \/ ConnectTimeout
    \/ ConnectAcked
    \/ ForNext
    \/ PwcClear
    \/ PwcReset
    \/ PwcPublish
    \/ WaitTimeout
    \/ WaitSignalled
    \/ PwcCheck
    \/ MainGotOk
    \/ AfterLoop
    \/ Except
    \/ Finally
    \/ \E dataOk \in BOOLEAN, pod \in BOOLEAN, n \in 0..MaxPokusy, deviceFound \in BOOLEAN :
          TStart(dataOk, pod, n, deviceFound)
    \/ TFor
    \/ \E obeyed \in BOOLEAN : TCmd(obeyed)
    \/ \E answered \in BOOLEAN : TStatus(answered)
    \/ TFail
    \/ Restart

Spec == Init /\ [][Next]_vars

\* ------------------------------------------------ one run, fair scheduling
\* the steps of the foreground thread of ovladani_rele.py
Foreground ==
    \/ \E hod \in Hours, pricesOk \in BOOLEAN, pod \in BOOLEAN, aioOk \in BOOLEAN :
          MainStart(hod, pricesOk, pod, aioOk)
    \/ \E reachable \in BOOLEAN : Connect(reachable)
    \/ ConnectTimeout
    \/ ConnectAcked
    \/ ForNext
    \/ PwcClear
    \/ PwcReset
    \/ PwcPublish
    \/ WaitTimeout
    \/ WaitSignalled
    \/ PwcCheck
    \/ MainGotOk
    \/ AfterLoop
    \/ Except
    \/ Finally

\* the callbacks of the network thread
Callbacks ==
    \/ \E rc \in {0, 5} : OnConnect(rc)
    \/ OnDisconnect
    \/ Reconnect
    \/ \E b \in Payloads, retain \in BOOLEAN : OnMessage(b, retain)

InitLive == Init /\ script = "ovladani_rele"

NextLive == Foreground \/ Callbacks

\* The foreground thread keeps running and its timed waits return (on the
\* signal or when the timeout elapses); nothing is assumed about the broker.
SpecLive == InitLive /\ [][NextLive]_vars /\ WF_vars(Foreground)


\* ------------------------------------------------------------ night_guard.py
\* max_wait = 70   (seconds)
max_wait == 70

\* interval = 0.5  (seconds): polling intervals in one second
IntervalsPerSecond == 2

\* waited is counted in polling intervals: waited < max_wait
WaitedBelowMax == waited < max_wait * IntervalsPerSecond

\* what the broker can deliver on TOPIC_GET: clean answers, the script's own
\* empty request, an answer with a line end, one with an undecodable byte,
\* and a word of the other firmware
NgPayloads == { <<"0">>, <<"1">>, <<>>, <<" ", "1", "\n">>,
                <<"0", BadByte>>, <<"O", "N">> }

\* payload = msg.payload.decode(errors="ignore").strip()
NgPayload(b) == Strip(Decode(b))

\* what the relay scripts own, which night_guard.py never touches
relayVars == << script, inv, pod_limitem, controller, pokus, ok, success,
                last_payload, confirm_event, connected_event, net,
                retainedPending, pokusy, is_on, cmds, outcome, result, notifs,
                att, connectFailed, disconnects, run, persisted >>

\* the network thread is running (between loop_start and loop_stop)
NgLoopRuns == pc \in {"ng_poll", "ng_stop", "ng_off_publish", "ng_off_stop"}

\* on_connect: subscribe to TOPIC_GET and ask the relay for its state; the
\* broker answers a subscription with the retained value if it holds one
NgOnConnect(rc, hasRetained) ==
    /\ NgLoopRuns
    /\ ng_net = "connecting"
    /\ IF rc = 0
       THEN /\ ng_net' = "up"
            /\ ng_retained' = hasRetained
       ELSE /\ ng_net' = "refused"
            /\ ng_retained' = ng_retained
    /\ UNCHANGED << pc, state, waited, off_cmds, delivered, wait_end, stop_state >>
    /\ UNCHANGED << relayVars, sdVars >>

\* the connection is lost
NgOnDisconnect ==
    /\ NgLoopRuns
    /\ ng_net = "up"
    /\ ng_net' = "down"
    /\ ng_retained' = FALSE
    /\ UNCHANGED << pc, state, waited, off_cmds, delivered, wait_end, stop_state >>
    /\ UNCHANGED << relayVars, sdVars >>

\* the network thread connects again
NgReconnect ==
    /\ NgLoopRuns
    /\ ng_net = "down"
    /\ ng_net' = "connecting"
    /\ UNCHANGED << pc, state, waited, ng_retained, off_cmds, delivered,
                    wait_end, stop_state >>
    /\ UNCHANGED << relayVars, sdVars >>

\* on_message without the "if msg.retain: return"
NgOnMessage_retained(b, retain) ==
    /\ NgLoopRuns
    /\ ng_net = "up"
    /\ retain => ng_retained
    /\ ng_retained' = IF retain THEN FALSE ELSE ng_retained
    /\ delivered' = [b |-> b, retain |-> retain]
    /\ state' = IF NgPayload(b) \in {<<"0">>, <<"1">>}
                THEN NgPayload(b)
                ELSE state
    /\ UNCHANGED << pc, waited, ng_net, off_cmds, wait_end, stop_state >>
    /\ UNCHANGED << relayVars, sdVars >>

\* on_message
NgOnMessage(b, retain) ==
    /\ NgLoopRuns
    /\ ng_net = "up"
    /\ retain => ng_retained
    /\ ng_retained' = IF retain THEN FALSE ELSE ng_retained
    /\ delivered' = [b |-> b, retain |-> retain]
    /\ state' = IF ~retain /\ NgPayload(b) \in {<<"0">>, <<"1">>}
                THEN NgPayload(b)
                ELSE state
    /\ UNCHANGED << pc, waited, ng_net, off_cmds, wait_end, stop_state >>
    /\ UNCHANGED << relayVars, sdVars >>

\* client.connect(MQTT_BROKER, 1883, 30); client.loop_start()
\* connect raises when the broker cannot be reached and the script ends
NgConnect(reachable) ==
    /\ script = "night_guard"
    /\ pc = "start"
    /\ IF reachable
       THEN /\ ng_net' = "connecting"
            /\ pc' = "ng_poll"
       ELSE /\ ng_net' = "failed"
            /\ pc' = "done"
    /\ UNCHANGED << state, waited, ng_retained, off_cmds, delivered, wait_end,
                    stop_state >>
    /\ UNCHANGED << relayVars, sdVars >>

\* while state is None and waited < max_wait: sleep(interval); waited += interval
NgPoll ==
    /\ pc = "ng_poll"
    /\ IF state = None /\ WaitedBelowMax
       THEN /\ waited' = waited + 1
            /\ UNCHANGED << pc, wait_end >>
       ELSE /\ pc' = "ng_stop"
            /\ wait_end' = state
            /\ waited' = waited
    /\ UNCHANGED << state, ng_net, ng_retained, off_cmds, delivered, stop_state >>
    /\ UNCHANGED << relayVars, sdVars >>

\* client.loop_stop(); client.disconnect()
NgStop ==
    /\ pc = "ng_stop"
    /\ ng_net' = "stopped"
    /\ ng_retained' = FALSE
    /\ stop_state' = state
    /\ pc' = "ng_eval"
    /\ UNCHANGED << state, waited, off_cmds, delivered, wait_end >>
    /\ UNCHANGED << relayVars, sdVars >>

\* the evaluation with "if state != "0":" for "if state == "1":"
NgEval_unknown ==
    /\ pc = "ng_eval"
    /\ pc' = IF state # <<"0">> THEN "ng_off_connect" ELSE "done"
    /\ UNCHANGED ngVars
    /\ UNCHANGED << relayVars, sdVars >>

\* if state == "1": ... elif state == "0": ... else: ...
NgEval ==
    /\ pc = "ng_eval"
    /\ pc' = IF state = <<"1">> THEN "ng_off_connect" ELSE "done"
    /\ UNCHANGED ngVars
    /\ UNCHANGED << relayVars, sdVars >>

\* client.connect(MQTT_BROKER, 1883, 30); client.loop_start()
NgOffConnect(reachable) ==
    /\ pc = "ng_off_connect"
    /\ IF reachable
       THEN /\ ng_net' = "connecting"
            /\ pc' = "ng_off_publish"
       ELSE /\ ng_net' = "failed"
            /\ pc' = "done"
    /\ UNCHANGED << state, waited, ng_retained, off_cmds, delivered, wait_end,
                    stop_state >>
    /\ UNCHANGED << relayVars, sdVars >>

\* client.publish(TOPIC_SET, "0", qos=1, retain=False)
NgOffPublish ==
    /\ pc = "ng_off_publish"
    /\ off_cmds' = off_cmds + 1
    /\ pc' = "ng_off_stop"
    /\ UNCHANGED << state, waited, ng_net, ng_retained, delivered, wait_end,
                    stop_state >>
    /\ UNCHANGED << relayVars, sdVars >>

\* client.loop_stop(); client.disconnect()
NgOffStop ==
    /\ pc = "ng_off_stop"
    /\ ng_net' = "stopped"
    /\ ng_retained' = FALSE
    /\ pc' = "done"
    /\ UNCHANGED << state, waited, off_cmds, delivered, wait_end, stop_state >>
    /\ UNCHANGED << relayVars, sdVars >>

\* the main flow of night_guard.py
NgForeground ==
    \/ \E reachable \in BOOLEAN : NgConnect(reachable)
    \/ NgPoll
    \/ NgStop
    \/ NgEval
    \/ \E reachable \in BOOLEAN : NgOffConnect(reachable)
    \/ NgOffPublish
    \/ NgOffStop

\* the callbacks of the network thread of night_guard.py
NgCallbacks ==
    \/ \E rc \in {0, 5}, hasRetained \in BOOLEAN : NgOnConnect(rc, hasRetained)
    \/ NgOnDisconnect
    \/ NgReconnect
    \/ \E b \in NgPayloads, retain \in BOOLEAN : NgOnMessage(b, retain)

InitNg ==
    /\ script = "night_guard"
    /\ inv = 1
    /\ is_on = FALSE
    /\ run = NoRun
    /\ persisted = "Unknown"
    /\ Fresh
    /\ NgFresh
    /\ SdFresh

NextNg == NgForeground \/ NgCallbacks

\* The main flow keeps running and time.sleep returns; nothing is assumed
\* about the broker or the relay.
SpecNg == InitNg /\ [][NextNg]_vars /\ WF_vars(NgForeground)

\* ----------------------------------------------------------- stahni_data.py
\* LIMIT_EUR = float(os.getenv("LIMIT_EUR", "13.0"))
LIMIT_EUR == 13

\* values of the column Ctvrthodina (kept >= 1 by ziskej_data_z_ote): the
\* first quarters of the day and the last two
Quarters == {1, 2, 3, 95, 96}

\* values of the column Cena (EUR/MWh): below, at and above the limit
Prices == {LIMIT_EUR - 1, LIMIT_EUR, LIMIT_EUR + 1}

\* the tables zjisti_intervaly_pod_limitem is called with
Tables ==
    UNION { [1..n -> [q : Quarters, cena : Prices]] : n \in 0..MaxRows }

DigitChars == <<"0", "1", "2", "3", "4", "5", "6", "7", "8", "9">>

\* str(n) of a number n >= 0
RECURSIVE Digits(_)
Digits(n) ==
    IF n < 10 THEN << DigitChars[n + 1] >>
    ELSE Digits(n \div 10) \o << DigitChars[(n % 10) + 1] >>

\* f"{n:02d}"
Pad2(n) == IF n < 10 THEN <<"0">> \o Digits(n) ELSE Digits(n)

\* ctvrthodina_na_cas counting the quarters from zero
ctvrthodina_na_cas_from_zero(index) ==
    LET st == index * 15
        hod == st \div 60
        minuty == st % 60
    IN  Pad2(hod) \o <<":">> \o Pad2(minuty)

\* ctvrthodina_na_cas(index)
ctvrthodina_na_cas(index) ==
    LET st == (index - 1) * 15
        hod == st \div 60
        minuty == st % 60
    IN  Pad2(hod) \o <<":">> \o Pad2(minuty)

\* f"{ctvrthodina_na_cas(start)}-{ctvrthodina_na_cas(prev + 1)}", the
\* separator being the en dash of the source
Interval(a, b) ==
    ctvrthodina_na_cas(a) \o <<"en-dash">> \o ctvrthodina_na_cas(b + 1)

\* df[df["Cena (EUR/MWh)"] < LIMIT_EUR]["Ctvrthodina"].tolist()
RECURSIVE PodLimitem(_)
PodLimitem(t) ==
    IF t = <<>> THEN <<>>
    ELSE IF Head(t).cena < LIMIT_EUR
         THEN << Head(t).q >> \o PodLimitem(Tail(t))
         ELSE PodLimitem(Tail(t))

\* pod = ...; intervaly = []; if pod: start = pod[0]; prev = pod[0]
SdStart ==
    /\ script = "stahni_data"
    /\ pc = "start"
    /\ pod_list' = PodLimitem(df)
    /\ intervaly' = <<>>
    /\ IF PodLimitem(df) # <<>>
       THEN /\ start' = PodLimitem(df)[1]
            /\ prev' = PodLimitem(df)[1]
            /\ pod_i' = 2
            /\ pc' = "sd_for"
       ELSE /\ pc' = "done"
            /\ UNCHANGED << start, prev, pod_i >>
    /\ UNCHANGED << df, relayVars, ngVars >>

\* one pass of "for i in pod[1:]:"
SdFor ==
    /\ pc = "sd_for"
    /\ pod_i <= Len(pod_list)
    /\ LET i == pod_list[pod_i]
       IN  IF i = prev + 1
           THEN /\ prev' = i
                /\ UNCHANGED << start, intervaly >>
           ELSE /\ intervaly' = Append(intervaly, Interval(start, prev))
                /\ start' = i
                /\ prev' = i
    /\ pod_i' = pod_i + 1
    /\ UNCHANGED << pc, df, pod_list, relayVars, ngVars >>

\* after the loop: intervaly.append(...); return intervaly
SdReturn ==
    /\ pc = "sd_for"
    /\ pod_i > Len(pod_list)
    /\ intervaly' = Append(intervaly, Interval(start, prev))
    /\ pc' = "done"
    /\ UNCHANGED << df, pod_list, pod_i, start, prev, relayVars, ngVars >>

InitSd ==
    /\ script = "stahni_data"
    /\ inv = 1
    /\ is_on = FALSE
    /\ run = NoRun
    /\ persisted = "Unknown"
    /\ Fresh
    /\ NgFresh
    /\ df \in Tables
    /\ pod_list = <<>>
    /\ pod_i = 0
    /\ start = 0
    /\ prev = 0
    /\ intervaly = <<>>

NextSd == SdStart \/ SdFor \/ SdReturn

SpecSd == InitSd /\ [][NextSd]_vars

\* ----------------------------------------------------------------- claims
Failed == {"timedout", "unconfirmed"}

Resolved == Failed \cup {"confirmed"}

\* number of notifications of one kind sent in this run
Count(kind) == Len(SelectSeq(notifs, LAMBDA n : n.kind = kind))

\* the retry loop was left with every attempt of the budget failed
Exhausted ==
    /\ pc \in {"finally", "done"}
    /\ result \notin {"error", "skipped"}
    /\ \A k \in 1..MaxAttempts : outcome[k] \in Failed

\* C1: a message carrying the retained flag never makes
\* publish_and_wait_confirmation return True, and an attempt during which no
\* message without the retained flag was delivered ends as timed out.
C1_RetainedImmunity ==
    pc = "got_ok" =>
        /\ ok => ~att.retain
        /\ ~att.liveSeen => outcome[pokus] = "timedout"

\* C2: a message delivered before the command of an attempt is published
\* never satisfies that attempt: when publish_and_wait_confirmation returns
\* True, the message it compared was delivered after the publish.
C2_StaleSignalImmunity ==
    (pc = "got_ok" /\ ok) => att.post

\* C3: publish_and_wait_confirmation returns True only if a message without
\* the retained flag and with the desired state was delivered after the
\* command of that attempt was published.
C3_ConfirmedOnlyByLiveEcho ==
    (pc = "got_ok" /\ ok) => att.liveMatch

\* C4: at most one attempt is pending at any time, and attempt k+1 is
\* published only after attempt k has resolved.
C4_Sequential ==
    /\ Cardinality({k \in AttemptIds : outcome[k] = "pending"}) <= 1
    /\ \A k \in AttemptIds :
          (k > 1 /\ outcome[k] # "none") => outcome[k - 1] \in Resolved

\* the second command is out and the first attempt has timed out
C4_Witness ==
    /\ script = "ovladani_rele"
    /\ outcome[1] = "timedout"
    /\ outcome[2] = "pending"

\* C5: once a message without the retained flag that carries the opposite
\* state has been delivered after the publish, the attempt still ends only
\* by its timeout or by a confirmation.
C5_MismatchKeepsWaiting ==
    (pc = "got_ok" /\ att.liveOther) => outcome[pokus] \in {"timedout", "confirmed"}

\* C6: a run publishes at most maxAttempts commands; a success means that
\* the last published attempt k is the confirmed one, all earlier ones
\* failed, the notification names k and nothing is published after it; a
\* failure means that all maxAttempts attempts were published and failed and
\* the notification names maxAttempts.  Holds for both scripts.
C6_BoundedRetry ==
    /\ cmds <= MaxAttempts
    /\ cmds = Cardinality({k \in AttemptIds : outcome[k] # "none"})
    /\ result = "success" =>
          /\ pokus \in 1..MaxAttempts
          /\ cmds = pokus
          /\ outcome[pokus] = "confirmed"
          /\ \A j \in 1..(pokus - 1) : outcome[j] \in Failed
          /\ notifs = << [kind |-> "ok", stav |-> AkceText, pokus |-> pokus] >>
    /\ result = "failure" =>
          /\ cmds = MaxAttempts
          /\ \A k \in 1..MaxAttempts : outcome[k] \in Failed
          /\ Len(notifs) = 1
          /\ notifs[1].kind = "nereaguje"
          /\ notifs[1].pokus = MaxAttempts
    /\ (pc = "done" /\ result \notin {"error", "skipped"}) =>
          /\ result \in {"success", "failure"}
          /\ result = "failure" <=> \A k \in 1..MaxAttempts : outcome[k] \in Failed

\* a run of ovladani_rele.py confirmed on its second attempt has ended
C6_Witness ==
    /\ script = "ovladani_rele"
    /\ pc = "done"
    /\ result = "success"
    /\ pokus = 2
    /\ outcome[1] \in Failed

\* C7: a run that exhausts its attempts without a confirmation sends exactly
\* one "Rele NEREAGUJE" notification; no run sends more than one, and none is
\* sent otherwise.
C7_AlwaysAlertOnFailure ==
    /\ Count("nereaguje") <= 1
    /\ Exhausted => Count("nereaguje") = 1
    /\ Count("nereaguje") = 1 =>
          (\A k \in 1..MaxAttempts : outcome[k] \in Failed) /\ Count("ok") = 0

\* the second run of ovladani_rele.py has ended with all attempts failed
C7_Witness ==
    /\ script = "ovladani_rele"
    /\ inv = 2
    /\ pc = "done"
    /\ Exhausted
    /\ cmds = POKUSY

\* C8: while the same state is confirmed by consecutive runs, only the first
\* of these confirmations sends a notification.
C8_IdempotentNotification ==
    run.notifs <= 1

\* C9: a run that ended with a confirmation has recorded the desired state
\* as the persisted last-confirmed state.
C9_PersistOnConfirm ==
    (pc = "done" /\ result = "success") =>
        persisted = (IF pod_limitem THEN "ON" ELSE "OFF")

\* C10: if connect() fails, no command is published in that run and the run
\* ends through the except branch with the error notification.
C10_ConnectFailureFatal ==
    connectFailed =>
        /\ cmds = 0
        /\ pc \in {"except", "finally", "done"}
        /\ pc \in {"finally", "done"} =>
              /\ result = "error"
              /\ notifs = << [kind |-> "chyba", stav |-> "-", pokus |-> 0] >>

\* the connect acknowledgment did not arrive in time and the run has ended
C10_Witness ==
    /\ pc = "done"
    /\ connectFailed
    /\ disconnects = 1
    /\ ~connected_event


\* a step of _on_message that stored a payload which is no relay state
MalformedDelivered ==
    /\ script = "ovladani_rele"
    /\ pc' = pc
    /\ net = "up" /\ net' = "up"
    /\ last_payload' \notin {ON, OFF, None}

\* C11: the delivery of a payload that does not decode to a relay state never
\* sets the confirm event and never resolves an attempt.
C11_MalformedNeverSignals ==
    [][MalformedDelivered => (confirm_event' = confirm_event /\ outcome' = outcome)]_vars

\* an attempt is still waiting after a malformed payload was delivered
C11_Witness ==
    /\ pc = "pwc_wait"
    /\ ~confirm_event
    /\ last_payload \notin {ON, OFF, None}

\* C12: an attempt during which the session was lost after the publish and
\* before a matching payload was stored does not return True.
C12_LossMeansTimeout ==
    (pc = "got_ok" /\ att.lost) => ~ok

C14_EventImpliesState ==
    pc = "pwc_check" => last_payload \in {ON, OFF}

\* C15: a malformed payload delivered after a matching payload has set the
\* event, and before the foreground thread reads it, leaves the stored
\* payload as it was.
C15_MalformedLeavesPayload ==
    [][(MalformedDelivered /\ AfterPublish /\ confirm_event /\
        last_payload = Upper(DesiredPayload)) => last_payload' = last_payload]_vars

\* the retry loop of the run is over (and, in tuya_control.py, no call raised)
LoopDone ==
    /\ pc = "done"
    /\ IF script = "ovladani_rele" THEN cmds >= 1 ELSE result \in {"success", "failure"}

\* C17: a run that reaches the retry loop sends exactly one of the two
\* outcome notifications; the success notification is sent only for a
\* confirmed attempt, and that attempt is the last command published.
C17_OneOutcomeNotification ==
    /\ Count("ok") + Count("nereaguje") <= 1
    /\ LoopDone => Count("ok") + Count("nereaguje") = 1
    /\ Count("ok") = 1 =>
          \E k \in AttemptIds : outcome[k] = "confirmed" /\ cmds = k

\* a run of ovladani_rele.py confirmed on the first attempt has ended
C17_Witness ==
    /\ script = "ovladani_rele"
    /\ pc = "done"
    /\ Count("ok") = 1
    /\ cmds = 1


\* C16: every run of main ends, and a run that has reached the retry loop
\* ends with a success or a failure result, whatever messages arrive.
C16_Terminates ==
    /\ <>(pc = "done")
    /\ (pc = "for") ~> (pc = "done" /\ result \in {"success", "failure"})

\* a run in which every attempt received only non-matching messages has ended
C16_Witness ==
    /\ pc = "done"
    /\ result = "failure"
    /\ \A k \in 1..POKUSY : outcome[k] = "unconfirmed"

\* C18 as stated: the state of night_guard changes only on a live message
\* whose payload is exactly "0" or "1", and is always None, "0" or "1".
C18_ExactPayloadOnly ==
    [][state' # state =>
          (~delivered'.retain /\ delivered'.b \in {<<"0">>, <<"1">>})]_vars

\* C18 amended: the state of night_guard changes only on a live message whose
\* payload, decoded with undecodable bytes dropped and stripped of surrounding
\* whitespace, is "0" or "1", and then becomes that value; a retained message,
\* the empty request and any other payload leave it unchanged; the state is
\* always None, "0" or "1".
C18_LiveStrippedPayloadOnly ==
    /\ [](state \in {None, <<"0">>, <<"1">>})
    /\ [][state' # state =>
             /\ ~delivered'.retain
             /\ NgPayload(delivered'.b) \in {<<"0">>, <<"1">>}
             /\ state' = NgPayload(delivered'.b)]_vars

C18_Witness ==
    /\ state = <<"1">>
    /\ delivered = [b |-> <<" ", "1", "\n">>, retain |-> FALSE]

\* C19 as stated: OFF is published at most once and only if the state was "1"
\* when the wait ended; with the state "0" or unknown at the end of the wait
\* nothing is published; the wait ends within max_wait seconds of polling.
C19_OffOnlyIfOnAtWaitEnd ==
    /\ off_cmds <= 1
    /\ (off_cmds = 1 => wait_end = <<"1">>)
    /\ waited <= max_wait * IntervalsPerSecond

\* C19 amended: OFF is published at most once per run and only if the state
\* is "1" when the network loop is stopped after the wait (a live message
\* that arrives between the end of the wait and loop_stop still counts); with
\* the state "0" or unknown at that point nothing is published. The polling
\* never exceeds max_wait seconds, and the wait always ends.
C19_OffOnlyIfOnAtLoopStop ==
    /\ [](off_cmds <= 1)
    /\ [](off_cmds = 1 => stop_state = <<"1">>)
    /\ []((pc = "done" /\ stop_state \in {None, <<"0">>}) => off_cmds = 0)
    /\ [](waited <= max_wait * IntervalsPerSecond)
    /\ []((pc = "ng_stop" /\ wait_end = None) =>
             waited = max_wait * IntervalsPerSecond)
    /\ ((pc = "ng_poll") ~> (pc = "ng_stop"))

C19_Witness ==
    /\ pc = "done"
    /\ off_cmds = 1
    /\ wait_end = None
    /\ stop_state = <<"1">>
    /\ waited = max_wait * IntervalsPerSecond

\* the value of a decimal digit character, read back independently
DigitValue(c) == CHOOSE d \in 0..9 : DigitChars[d + 1] = c

\* minutes since midnight of a text "HH:MM"
ParseTime(t) ==
    (DigitValue(t[1]) * 10 + DigitValue(t[2])) * 60
        + DigitValue(t[4]) * 10 + DigitValue(t[5])

\* the column Ctvrthodina of the table is strictly ascending
AscendingTable == \A k \in 1..(Len(df) - 1) : df[k].q < df[k + 1].q

\* the quarter-hours of the table whose price is below the limit
BelowLimit == { df[k].q : k \in { j \in 1..Len(df) : df[j].cena < LIMIT_EUR } }

\* the maximal runs a..b of consecutive quarter-hours below the limit
MaximalRuns ==
    { r \in BelowLimit \X BelowLimit :
        /\ r[1] <= r[2]
        /\ \A q \in r[1]..r[2] : q \in BelowLimit
        /\ (r[1] - 1) \notin BelowLimit
        /\ (r[2] + 1) \notin BelowLimit }

\* the text is "HH:MM", the en dash, "HH:MM"
WellFormed(t) ==
    /\ Len(t) = 11
    /\ t[3] = ":" /\ t[9] = ":" /\ t[6] = "en-dash"
    /\ \A k \in {1, 2, 4, 5, 7, 8, 10, 11} : \E d \in 0..9 : DigitChars[d + 1] = t[k]

\* the run of quarter-hours an interval text stands for
RunOf(t) ==
    << ParseTime(SubSeq(t, 1, 5)) \div 15 + 1, ParseTime(SubSeq(t, 7, 11)) \div 15 >>

\* C20: for a table with strictly ascending quarter-hour indices the result
\* of zjisti_intervaly_pod_limitem is exactly the maximal runs of consecutive
\* below-limit quarter-hours, in ascending order: every interval is a text
\* "HH:MM-HH:MM" from (a-1)*15 minutes to b*15 minutes of a maximal run a..b,
\* every maximal run is returned once, later intervals start after earlier
\* ones end (never adjacent), and the result is empty iff no price is below
\* the limit.
C20_MaximalRuns ==
    (script = "stahni_data" /\ pc = "done" /\ AscendingTable) =>
        /\ Len(intervaly) = Cardinality(MaximalRuns)
        /\ \A j \in 1..Len(intervaly) :
              /\ WellFormed(intervaly[j])
              /\ ParseTime(SubSeq(intervaly[j], 1, 5)) % 15 = 0
              /\ ParseTime(SubSeq(intervaly[j], 7, 11)) % 15 = 0
              /\ RunOf(intervaly[j]) \in MaximalRuns
        /\ \A j \in 1..(Len(intervaly) - 1) :
              RunOf(intervaly[j])[2] + 1 < RunOf(intervaly[j + 1])[1]
        /\ (intervaly = <<>>) <=> (BelowLimit = {})

C20_Witness ==
    /\ script = "stahni_data"
    /\ pc = "done"
    /\ AscendingTable
    /\ Len(df) = 3
    /\ intervaly = << <<"0", "0", ":", "0", "0", "en-dash", "0", "0", ":", "1", "5">>,
                      <<"2", "3", ":", "3", "0", "en-dash", "2", "4", ":", "0", "0">> >>

====
